---- MODULE Spec2Model ----
(***************************************************************************)
(* A model of weather.py: the Request Executor (make_gc_request) and the   *)
(* Forecast Formatter & Validator (get_forecast, format_forecast).         *)
(*                                                                         *)
(* Python values are tagged records.  A call either returns a value or     *)
(* raises an exception; both are carried as data so that an exception      *)
(* escaping a function is a state the model can reach.                     *)
(***************************************************************************)
EXTENDS Integers, Sequences, FiniteSets, TLC

\* ------------------------------------------------------------ constants
GC_API_BASE == "https://weather.gc.ca"
MAX_RETRIES == 2
RETRY_DELAY == 1
DEFAULT_MAX_DAYS == 5

\* bound of the model: the largest retries argument of a direct call
MaxRetriesArg == 3

\* ------------------------------------------------------------ JSON values
JNull == [t |-> "null"]
JNum(n) == [t |-> "num", n |-> n]
JStr(s) == [t |-> "str", s |-> s]
JBool(b) == [t |-> "bool", b |-> b]
JList(l) == [t |-> "list", l |-> l]
JObj(o) == [t |-> "obj", o |-> o]
EmptyDict == JObj(<<>>)
EmptyList == JList(<<>>)

\* faulty variant: only None is false (`x is None` in place of `not x`)
Truthy_NotNone(v) == v.t # "null"

\* Python truth value of a decoded JSON value (`not x`, `if x`)
Truthy(v) ==
    CASE v.t = "null" -> FALSE
      [] v.t = "num" -> v.n # 0
      [] v.t = "str" -> v.s # ""
      [] v.t = "bool" -> v.b
      [] v.t = "list" -> Len(v.l) > 0
      [] v.t = "obj" -> DOMAIN v.o # {}

\* type(x).__name__
PyTypeName(v) ==
    CASE v.t = "null" -> "NoneType"
      [] v.t = "num" -> "int"
      [] v.t = "str" -> "str"
      [] v.t = "bool" -> "bool"
      [] v.t = "list" -> "list"
      [] v.t = "obj" -> "dict"

\* str(x) as an f-string field formats it (scalars only)
PyStr(v) ==
    CASE v.t = "null" -> "None"
      [] v.t = "num" -> ToString(v.n)
      [] v.t = "str" -> v.s
      [] v.t = "bool" -> IF v.b THEN "True" ELSE "False"

\* ------------------------------------------------------------ results
Ok(v) == [ok |-> TRUE, v |-> v]
Raise(type, msg) == [ok |-> FALSE, e |-> [type |-> type, msg |-> msg]]

\* faulty variant: x[key] in place of x.get(key, default)
DictGet_Subscript(x, key, default) ==
    IF x.t = "obj"
    THEN IF key \in DOMAIN x.o THEN Ok(x.o[key]) ELSE Raise("KeyError", "'" \o key \o "'")
    ELSE Raise("TypeError", "'" \o PyTypeName(x) \o "' object is not subscriptable")

\* x.get(key, default): a dict method; any other value has no attribute get
DictGet(x, key, default) ==
    IF x.t = "obj"
    THEN Ok(IF key \in DOMAIN x.o THEN x.o[key] ELSE default)
    ELSE Raise("AttributeError",
               "'" \o PyTypeName(x) \o "' object has no attribute 'get'")

\* ------------------------------------------------------------ format_forecast
RECURSIVE SetToSeq(_)
SetToSeq(S) ==
    IF S = {} THEN <<>>
    ELSE LET x == CHOOSE y \in S : TRUE IN <<x>> \o SetToSeq(S \ {x})

\* the items a `for` statement draws from x
PyIter(x) ==
    CASE x.t = "list" -> Ok(x.l)
      [] x.t = "str" -> Ok([i \in 1..Len(x.s) |-> JStr(SubSeq(x.s, i, i))])
      [] x.t = "obj" -> Ok([i \in 1..Cardinality(DOMAIN x.o) |->
                               JStr(SetToSeq(DOMAIN x.o)[i])])
      [] OTHER -> Raise("TypeError",
                        "'" \o PyTypeName(x) \o "' object is not iterable")

\* faulty variant: every label other than "Day" is skipped
IsNightLabel_NotDay(label) == ~(label.t = "str" /\ label.s = "Day")

\* day.get("periodLabel") == "Night"
IsNightLabel(label) == label.t = "str" /\ label.s = "Night"

\* faulty variant: the cap lets one entry more through
SkipEntry_CapOffByOne(label, days_added, max_days) ==
    IsNightLabel(label) \/ days_added > max_days

\* the `continue` condition of the loop, once day.get has returned
SkipEntry(label, days_added, max_days) ==
    IsNightLabel(label) \/ days_added >= max_days

\* the f-string block appended for one retained entry
ForecastBlock(day) ==
    "\n" \o PyStr(DictGet(day, "date", JStr("Unknown date")).v)
         \o ":\nForecast: "
         \o PyStr(DictGet(day, "text", JStr("No forecast available")).v)
         \o "\n"

RECURSIVE FormatLoop(_, _, _, _, _)
FormatLoop(items, i, forecasts, days_added, max_days) ==
    IF i > Len(items) THEN Ok(forecasts)
    ELSE LET day == items[i]
             label == DictGet(day, "periodLabel", JNull)
         IN  IF ~label.ok THEN label
             ELSE IF SkipEntry(label.v, days_added, max_days)
             THEN FormatLoop(items, i + 1, forecasts, days_added, max_days)
             ELSE FormatLoop(items, i + 1, Append(forecasts, ForecastBlock(day)),
                             days_added + 1, max_days)

\* sep.join(parts)
RECURSIVE Join(_, _)
Join(sep, parts) ==
    IF Len(parts) = 0 THEN ""
    ELSE IF Len(parts) = 1 THEN parts[1]
    ELSE parts[1] \o sep \o Join(sep, Tail(parts))

format_forecast(daily_forecast, max_days) ==
    LET it == PyIter(daily_forecast)
    IN  IF ~it.ok THEN it
        ELSE LET r == FormatLoop(it.v, 1, <<>>, 0, max_days)
             IN  IF ~r.ok THEN r
                 ELSE IF Len(r.v) = 0 THEN Ok("No forecast data available")
                 ELSE Ok(Join("\n---\n", r.v))

\* ------------------------------------------------------------ get_forecast
\* caller-supplied arguments: a finite number, a float NaN, or a non-number
ArgNum(n) == [t |-> "num", v |-> n]
ArgNaN == [t |-> "nan"]
ArgStr(s) == [t |-> "str", s |-> s]
ArgNone == [t |-> "none"]

\* isinstance(x, (int, float))
IsNumber(x) == x.t \in {"num", "nan"}
\* x < n and x > n on Python numbers: every comparison with NaN is False
PyLess(x, n) == x.t = "num" /\ x.v < n
PyGreater(x, n) == x.t = "num" /\ x.v > n
\* {x} in an f-string
PyFormatNumber(x) == IF x.t = "nan" THEN "nan" ELSE ToString(x.v)

TypeErrorText == "Error: Latitude and longitude must be numbers"
LatitudeErrorText == "Error: Latitude must be between -90 and 90 degrees"
LongitudeErrorText == "Error: Longitude must be between -180 and 180 degrees"
UnableToFetchText == "Unable to fetch forecast data for this location"
NoLocationDataText == "No forecast data available for this location"

\* the three validation returns; "" when the inputs pass
InputValidation(latitude, longitude) ==
    IF ~IsNumber(latitude) \/ ~IsNumber(longitude) THEN TypeErrorText
    ELSE IF PyLess(latitude, -90) \/ PyGreater(latitude, 90) THEN LatitudeErrorText
    ELSE IF PyLess(longitude, -180) \/ PyGreater(longitude, 180) THEN LongitudeErrorText
    ELSE ""

ForecastUrl(latitude, longitude) ==
    GC_API_BASE \o "/api/app/en/Location/" \o PyFormatNumber(latitude) \o ","
                \o PyFormatNumber(longitude) \o "?type=city"

\* the try block after make_gc_request has returned api_response
ShapeAndRender(api_response) ==
    IF ~Truthy(api_response) \/ api_response.t # "list" \/ Len(api_response.l) = 0
    THEN Ok(UnableToFetchText)
    ELSE LET forecast_data == api_response.l[1]
             fcst == DictGet(forecast_data, "dailyFcst", EmptyDict)
         IN  IF ~fcst.ok THEN fcst
             ELSE LET daily == DictGet(fcst.v, "daily", EmptyList)
                  IN  IF ~daily.ok THEN daily
                      ELSE IF ~Truthy(daily.v) THEN Ok(NoLocationDataText)
                      ELSE format_forecast(daily.v, DEFAULT_MAX_DAYS)

\* what a call ends with
Pending == [kind |-> "pending"]
Returned(v) == [kind |-> "return", value |-> v]
Raised(e) == [kind |-> "raise", exc |-> e]

\* the exception classes the model raises, all subclasses of Exception
ExceptionClasses ==
    {"WeatherAPIError", "KeyError", "AttributeError", "TypeError",
     "HTTPStatusError", "ConnectError", "ReadTimeout", "InvalidURL",
     "JSONDecodeError"}

\* faulty variant: no catch-all `except Exception` clause
HandleException_NoCatchAll(e) ==
    IF e.type = "WeatherAPIError" THEN Returned("Weather API error: " \o e.msg)
    ELSE IF e.type = "KeyError"
    THEN Returned("Unable to process forecast data: missing key " \o e.msg)
    ELSE Raised(e)

\* faulty variant: the catch-all clause comes first
HandleException_GenericFirst(e) ==
    IF e.type \in ExceptionClasses
    THEN Returned("Error processing forecast data: " \o e.msg)
    ELSE Raised(e)

\* the except clauses of get_forecast, in order
HandleException(e) ==
    IF e.type = "WeatherAPIError" THEN Returned("Weather API error: " \o e.msg)
    ELSE IF e.type = "KeyError"
    THEN Returned("Unable to process forecast data: missing key " \o e.msg)
    ELSE IF e.type \in ExceptionClasses
    THEN Returned("Error processing forecast data: " \o e.msg)
    ELSE Raised(e)

\* get_forecast from the point where make_gc_request has ended with `request`
AfterRequest(request) ==
    LET r == IF request.kind = "raise"
             THEN [ok |-> FALSE, e |-> request.exc]
             ELSE ShapeAndRender(request.value)
    IN  IF r.ok THEN Returned(r.v) ELSE HandleException(r.e)

\* ------------------------------------------------------------ the remote API
\* entries of a daily-forecast sequence, well-formed and not
DayEntry(d, x) ==
    JObj([date |-> JStr(d), periodLabel |-> JStr("Day"), text |-> JStr(x)])
NightEntry(d, x) ==
    JObj([date |-> JStr(d), periodLabel |-> JStr("Night"), text |-> JStr(x)])

Entries ==
    {DayEntry("2023-01-01", "Sunny"), NightEntry("2023-01-01", "Clear"),
     JObj([date |-> JStr("2023-01-02"), text |-> JStr("Rain")]),
     JObj([date |-> JStr("2023-01-03"), periodLabel |-> JStr("Evening"),
           text |-> JNull]),
     JObj([periodLabel |-> JStr("Day")]),
     EmptyDict, JNull, JStr("Day")}

\* the sample sequence of the tests, and one with more day entries than the cap
SampleDaily ==
    <<DayEntry("2023-01-01", "Sunny with cloudy periods"),
      NightEntry("2023-01-01", "Clear"),
      DayEntry("2023-01-02", "Cloudy with chance of rain"),
      NightEntry("2023-01-02", "Cloudy"),
      DayEntry("2023-01-03", "Sunny")>>
LongDaily ==
    SampleDaily \o <<DayEntry("2023-01-04", "Snow"), DayEntry("2023-01-05", "Fog"),
                     DayEntry("2023-01-06", "Hail"), JNum(7)>>

Scalars == {JNull, JNum(0), JNum(7), JStr(""), JStr("abc"), JBool(FALSE), JBool(TRUE)}

\* values found under "daily"
DailyValues ==
    {JList(<<e>>) : e \in Entries}
    \cup {JList(<<e1, e2>>) : e1 \in Entries,
              e2 \in {DayEntry("2023-01-02", "Cloudy"), NightEntry("2023-01-01", "Clear"),
                      JNull}}
    \cup {JList(SampleDaily), JList(LongDaily), JList(SubSeq(LongDaily, 1, 8))}
    \cup {EmptyList, EmptyDict, JObj([date |-> JStr("2023-01-01")])}
    \cup Scalars

\* values found under "dailyFcst"
DailyFcstValues ==
    {JObj([daily |-> d]) : d \in DailyValues}
    \cup {EmptyDict, JObj([hourly |-> EmptyList]), EmptyList, JList(<<JNum(7)>>)}
    \cup Scalars

\* first elements of the payload
LocationValues ==
    {JObj([displayName |-> JStr("Test City"), dailyFcst |-> f]) : f \in DailyFcstValues}
    \cup {EmptyDict, JObj([displayName |-> JStr("Test City")]), EmptyList,
          JList(<<JNum(7)>>)}
    \cup Scalars

\* decoded bodies of a 2xx response
Payloads ==
    {JList(<<x>>) : x \in LocationValues}
    \cup {JList(<<JObj([displayName |-> JStr("Test City")]), JNull>>)}
    \cup {EmptyList, EmptyDict, JObj([dailyFcst |-> JObj([daily |-> JList(SampleDaily)])])}
    \cup Scalars

\* a body response.json() cannot decode
Unparseable == [t |-> "unparseable"]

Statuses == {101, 200, 204, 301, 400, 404, 429, 499, 500, 503}

\* what one client.get can end with: a response, or an exception raised by get
HttpResponse(status, body) == [k |-> "response", status |-> status, body |-> body]
GetRaises(type) == [k |-> "raise", type |-> type]

Outcomes ==
    {HttpResponse(200, b) : b \in Payloads}
    \cup {HttpResponse(st, Unparseable) : st \in Statuses}
    \cup {GetRaises(ty) : ty \in {"ConnectError", "ReadTimeout", "InvalidURL"}}

\* ------------------------------------------------------------ make_gc_request
NoneValue == [type |-> "None", msg |-> "None"]
WeatherAPIError(msg) == [type |-> "WeatherAPIError", msg |-> msg]

\* str(e) of the exceptions httpx raises from client.get
TransportMessage(type) ==
    CASE type = "ConnectError" -> "All connection attempts failed"
      [] type = "ReadTimeout" -> "The read operation timed out"
      [] type = "InvalidURL" -> "Invalid non-printable ASCII character in URL"

\* response.raise_for_status(): the HTTPStatusError of a non-2xx response
HTTPStatusError(status, url) ==
    [type |-> "HTTPStatusError", status |-> status,
     msg |-> (IF status < 200 THEN "Informational response"
              ELSE IF status < 400 THEN "Redirect response"
              ELSE IF status < 500 THEN "Client error"
              ELSE "Server error")
             \o " '" \o ToString(status) \o "' for url '" \o url \o "'"]

\* the try body of one attempt, given what client.get ended with
TryBody(o, url) ==
    IF o.k = "raise" THEN Raise(o.type, TransportMessage(o.type))
    ELSE IF ~(200 <= o.status /\ o.status <= 299)
    THEN [ok |-> FALSE, e |-> HTTPStatusError(o.status, url)]
    ELSE IF o.body.t = "unparseable"
    THEN Raise("JSONDecodeError", "Expecting value: line 1 column 1 (char 0)")
    ELSE Ok(o.body)

\* except httpx.HTTPStatusError
IsHTTPStatusError(e) == e.type = "HTTPStatusError"

\* faulty variant: every exception is taken for a transport error and retried
IsRequestError_Any(e) == TRUE

\* except (httpx.RequestError, httpx.TimeoutException)
IsRequestError(e) == e.type \in {"ConnectError", "ReadTimeout"}

\* faulty variant: the 400 boundary is excluded
IsClientErrorStatus_Above400(status_code) ==
    400 < status_code /\ status_code < 500 /\ status_code # 429

\* faulty variant: server errors are treated as fatal too
IsClientErrorStatus_AnyError(status_code) ==
    400 <= status_code /\ status_code # 429

\* faulty variant: no lower bound, a status below 400 is fatal too
IsClientErrorStatus_NoLowerBound(status_code) ==
    status_code < 500 /\ status_code # 429

\* if 400 <= status_code < 500 and status_code != 429
IsClientErrorStatus(status_code) ==
    400 <= status_code /\ status_code < 500 /\ status_code # 429

\* faulty variant: one attempt fewer
LoopCondition_Strict(attempt, retries) == attempt < retries

\* while attempt <= retries
LoopCondition(attempt, retries) == attempt <= retries

\* faulty variant: sleep after the final attempt too
SleepCondition_Always(attempt, retries) == TRUE

\* if attempt <= retries (after attempt += 1)
SleepCondition(attempt, retries) == attempt <= retries

\* faulty variant: linear backoff
WaitTime_Linear(attempt) == RETRY_DELAY * attempt

\* wait_time = RETRY_DELAY * (2 ** (attempt - 1))
WaitTime(attempt) == RETRY_DELAY * 2 ^ (attempt - 1)

\* faulty variant: the first error is kept
RecordError_KeepFirst(previous, e) == IF previous.type = "None" THEN e ELSE previous

\* last_error = e
RecordError(previous, e) == e

\* the message of the exhausted-retries failure
ExhaustedMessage(retries, last_error) ==
    "Failed after " \o ToString(retries + 1) \o " attempts: " \o last_error.msg

\* ------------------------------------------------------------ state
VARIABLES
    procs,          \* the invocations the host has started
    entry,          \* which function each invocation calls
    latitude, longitude,    \* get_forecast's arguments
    daily_forecast, \* format_forecast's argument
    url, retries,   \* make_gc_request's arguments
    attempt, last_error,    \* make_gc_request's locals
    pc,             \* where each invocation is
    client_open,    \* httpx.AsyncClient objects inside their `async with`
    gets,           \* calls of client.get so far
    sleeps,         \* arguments of the asyncio.sleep calls so far
    responses,      \* what each client.get so far ended with
    request_result, \* how make_gc_request ended
    result          \* how the invocation ended

vars == <<procs, entry, latitude, longitude, daily_forecast, url, retries, attempt, last_error, pc,
          client_open, gets, sleeps, responses, request_result, result>>

LatitudeArgs == {ArgNum(-91), ArgNum(-90), ArgNum(90), ArgNum(91), ArgNaN,
                 ArgStr("invalid"), ArgNone}
LongitudeArgs == {ArgNum(-181), ArgNum(-180), ArgNum(180), ArgNum(181), ArgNaN,
                  ArgStr("invalid")}

\* the calls a host or a test makes
Calls ==
    {[entry |-> "get_forecast", latitude |-> la, longitude |-> lo,
      daily_forecast |-> EmptyList,
      url |-> "", retries |-> MAX_RETRIES] : la \in LatitudeArgs, lo \in LongitudeArgs}
    \cup {[entry |-> "make_gc_request", latitude |-> ArgNone, longitude |-> ArgNone,
           daily_forecast |-> EmptyList,
           url |-> "https://test-url.com", retries |-> r] : r \in 0..MaxRetriesArg}

InitWith(ps, calls) ==
    /\ procs = ps
    /\ \E c \in [ps -> calls] :
        /\ entry = [p \in ps |-> c[p].entry]
        /\ latitude = [p \in ps |-> c[p].latitude]
        /\ longitude = [p \in ps |-> c[p].longitude]
        /\ daily_forecast = [p \in ps |-> c[p].daily_forecast]
        /\ url = [p \in ps |-> c[p].url]
        /\ retries = [p \in ps |-> c[p].retries]
    /\ attempt = [p \in ps |-> 0]
    /\ last_error = [p \in ps |-> NoneValue]
    /\ pc = [p \in ps |-> "called"]
    /\ client_open = [p \in ps |-> 0]
    /\ gets = [p \in ps |-> 0]
    /\ sleeps = [p \in ps |-> <<>>]
    /\ responses = [p \in ps |-> <<>>]
    /\ request_result = [p \in ps |-> Pending]
    /\ result = [p \in ps |-> Pending]

Init == InitWith({1}, Calls)

\* make_gc_request ends with `r`; a get_forecast caller runs on to its return
Complete(p, r) ==
    /\ request_result' = [request_result EXCEPT ![p] = r]
    /\ result' = [result EXCEPT ![p] =
                     IF entry[p] = "get_forecast" THEN AfterRequest(r) ELSE r]
    /\ pc' = [pc EXCEPT ![p] = "done"]

\* get_forecast: validation, then the call of make_gc_request
Call_get_forecast(p) ==
    /\ pc[p] = "called" /\ entry[p] = "get_forecast"
    /\ LET error == InputValidation(latitude[p], longitude[p])
       IN  IF error # ""
           THEN /\ result' = [result EXCEPT ![p] = Returned(error)]
                /\ pc' = [pc EXCEPT ![p] = "done"]
                /\ UNCHANGED url
           ELSE /\ url' = [url EXCEPT ![p] = ForecastUrl(latitude[p], longitude[p])]
                /\ pc' = [pc EXCEPT ![p] = "request"]
                /\ UNCHANGED result
    /\ UNCHANGED <<procs, daily_forecast, entry, latitude, longitude, retries, attempt, last_error,
                   client_open, gets, sleeps, responses, request_result>>

\* a direct call of make_gc_request(url, retries)
Call_make_gc_request(p) ==
    /\ pc[p] = "called" /\ entry[p] = "make_gc_request"
    /\ pc' = [pc EXCEPT ![p] = "request"]
    /\ UNCHANGED <<procs, daily_forecast, entry, latitude, longitude, url, retries, attempt,
                   last_error, client_open, gets, sleeps, responses, request_result,
                   result>>

\* while attempt <= retries: open a client and await client.get
SendGet(p) ==
    /\ pc[p] = "request" /\ LoopCondition(attempt[p], retries[p])
    /\ client_open' = [client_open EXCEPT ![p] = @ + 1]
    /\ gets' = [gets EXCEPT ![p] = @ + 1]
    /\ pc' = [pc EXCEPT ![p] = "in_get"]
    /\ UNCHANGED <<procs, daily_forecast, entry, latitude, longitude, url, retries, attempt,
                   last_error, sleeps, responses, request_result, result>>

\* the loop condition fails: raise WeatherAPIError(f"Failed after ...")
ExhaustRetries(p) ==
    /\ pc[p] = "request" /\ ~LoopCondition(attempt[p], retries[p])
    /\ Complete(p, Raised(WeatherAPIError(ExhaustedMessage(retries[p], last_error[p]))))
    /\ UNCHANGED <<procs, daily_forecast, entry, latitude, longitude, url, retries, attempt,
                   last_error, client_open, gets, sleeps, responses>>

\* faulty variant: the client stays open when the attempt ends
LeaveGet_NoClose(p, o) ==
    /\ pc[p] = "in_get"
    /\ UNCHANGED client_open
    /\ responses' = [responses EXCEPT ![p] = Append(@, o)]

\* lines 65-68: leaving the `async with` block closes the client, whether the
\* block ends normally or with an exception
LeaveGet(p, o) ==
    /\ pc[p] = "in_get"
    /\ client_open' = [client_open EXCEPT ![p] = @ - 1]
    /\ responses' = [responses EXCEPT ![p] = Append(@, o)]

\* faulty variant: attempt is one module-level counter that every call increments
RetryAfter_SharedAttempt(p, e) ==
    /\ last_error' = [last_error EXCEPT ![p] = RecordError(@, e)]
    /\ attempt' = [q \in procs |-> attempt[q] + 1]
    /\ IF SleepCondition(attempt[p] + 1, retries[p])
       THEN /\ sleeps' = [sleeps EXCEPT ![p] = Append(@, WaitTime(attempt[p] + 1))]
            /\ pc' = [pc EXCEPT ![p] = "sleeping"]
       ELSE /\ pc' = [pc EXCEPT ![p] = "request"]
            /\ UNCHANGED sleeps
    /\ UNCHANGED <<request_result, result>>

\* lines 94-99: count the attempt, and sleep if another one follows
RetryAfter(p, e) ==
    /\ last_error' = [last_error EXCEPT ![p] = RecordError(@, e)]
    /\ attempt' = [attempt EXCEPT ![p] = @ + 1]
    /\ IF SleepCondition(attempt[p] + 1, retries[p])
       THEN /\ sleeps' = [sleeps EXCEPT ![p] = Append(@, WaitTime(attempt[p] + 1))]
            /\ pc' = [pc EXCEPT ![p] = "sleeping"]
       ELSE /\ pc' = [pc EXCEPT ![p] = "request"]
            /\ UNCHANGED sleeps
    /\ UNCHANGED <<request_result, result>>

\* faulty variant: the parsed value is not returned, the loop goes on
AttemptSucceeds_NoReturn(p, o) ==
    /\ LeaveGet(p, o)
    /\ TryBody(o, url[p]).ok
    /\ pc' = [pc EXCEPT ![p] = "request"]
    /\ attempt' = [attempt EXCEPT ![p] = @ + 1]
    /\ UNCHANGED <<procs, daily_forecast, entry, latitude, longitude, url, retries, last_error,
                   gets, sleeps, request_result, result>>

\* return response.json()
AttemptSucceeds(p, o) ==
    /\ LeaveGet(p, o)
    /\ TryBody(o, url[p]).ok
    /\ Complete(p, Returned(TryBody(o, url[p]).v))
    /\ UNCHANGED <<procs, daily_forecast, entry, latitude, longitude, url, retries, attempt,
                   last_error, gets, sleeps>>

\* except httpx.HTTPStatusError
AttemptStatusError(p, o) ==
    /\ LeaveGet(p, o)
    /\ LET r == TryBody(o, url[p])
       IN  /\ ~r.ok /\ IsHTTPStatusError(r.e)
           /\ IF IsClientErrorStatus(r.e.status)
              THEN /\ Complete(p, Raised(WeatherAPIError("Client error: " \o r.e.msg)))
                   /\ UNCHANGED <<attempt, last_error, sleeps>>
              ELSE RetryAfter(p, r.e)
    /\ UNCHANGED <<procs, daily_forecast, entry, latitude, longitude, url, retries, gets>>

\* except (httpx.RequestError, httpx.TimeoutException)
AttemptRequestError(p, o) ==
    /\ LeaveGet(p, o)
    /\ LET r == TryBody(o, url[p])
       IN  /\ ~r.ok /\ ~IsHTTPStatusError(r.e) /\ IsRequestError(r.e)
           /\ RetryAfter(p, r.e)
    /\ UNCHANGED <<procs, daily_forecast, entry, latitude, longitude, url, retries, gets>>

\* except Exception
AttemptUnexpected(p, o) ==
    /\ LeaveGet(p, o)
    /\ LET r == TryBody(o, url[p])
       IN  /\ ~r.ok /\ ~IsHTTPStatusError(r.e) /\ ~IsRequestError(r.e)
           /\ Complete(p, Raised(WeatherAPIError("Unexpected error: " \o r.e.msg)))
    /\ UNCHANGED <<procs, daily_forecast, entry, latitude, longitude, url, retries, attempt,
                   last_error, gets, sleeps>>

\* asyncio.sleep(wait_time) returns
WakeUp(p) ==
    /\ pc[p] = "sleeping"
    /\ pc' = [pc EXCEPT ![p] = "request"]
    /\ UNCHANGED <<procs, daily_forecast, entry, latitude, longitude, url, retries, attempt,
                   last_error, client_open, gets, sleeps, responses, request_result,
                   result>>

Next ==
    \/ \E p \in procs : Call_get_forecast(p)
    \/ \E p \in procs : Call_make_gc_request(p)
    \/ \E p \in procs : SendGet(p)
    \/ \E p \in procs : ExhaustRetries(p)
    \/ \E p \in procs, o \in Outcomes : AttemptSucceeds(p, o)
    \/ \E p \in procs, o \in Outcomes : AttemptStatusError(p, o)
    \/ \E p \in procs, o \in Outcomes : AttemptRequestError(p, o)
    \/ \E p \in procs, o \in Outcomes : AttemptUnexpected(p, o)
    \/ \E p \in procs : WakeUp(p)

Spec == Init /\ [][Next]_vars

\* ------------------------------------------------------------ concurrent calls
\* Two calls on one event loop: each `await` (client.get, asyncio.sleep) is a point
\* where the other call may run. attempt, last_error, the client and the result are
\* locals of a call; the module holds no state a call writes.
ConcCalls ==
    {[entry |-> "get_forecast", latitude |-> ArgNum(la), longitude |-> ArgNum(180),
      daily_forecast |-> EmptyList, url |-> "", retries |-> MAX_RETRIES] : la \in {90, 91}}
    \cup {[entry |-> "make_gc_request", latitude |-> ArgNone, longitude |-> ArgNone,
           daily_forecast |-> EmptyList, url |-> "https://test-url.com", retries |-> 1]}

ConcOutcomes ==
    {HttpResponse(200, JList(<<JObj([dailyFcst |-> JObj([daily |-> JList(SampleDaily)])])>>)),
     HttpResponse(200, Unparseable), HttpResponse(404, Unparseable),
     HttpResponse(500, Unparseable), GetRaises("ReadTimeout")}

InitConc == InitWith({1, 2}, ConcCalls)

NextConc ==
    \/ \E p \in procs : Call_get_forecast(p)
    \/ \E p \in procs : Call_make_gc_request(p)
    \/ \E p \in procs : SendGet(p)
    \/ \E p \in procs : ExhaustRetries(p)
    \/ \E p \in procs, o \in ConcOutcomes : AttemptSucceeds(p, o)
    \/ \E p \in procs, o \in ConcOutcomes : AttemptStatusError(p, o)
    \/ \E p \in procs, o \in ConcOutcomes : AttemptRequestError(p, o)
    \/ \E p \in procs, o \in ConcOutcomes : AttemptUnexpected(p, o)
    \/ \E p \in procs : WakeUp(p)

SpecConc == InitConc /\ [][NextConc]_vars

\* ------------------------------------------------------------ format_forecast alone
\* bound of the model: the longest daily-forecast sequence of Day and Night entries
MaxDaily == 7

\* the i-th entry of a sequence, by the kind of its period label
EntryAt(i, kind) ==
    LET d == JStr("2023-01-0" \o ToString(i))
        x == JStr("Forecast " \o ToString(i))
    IN  CASE kind = "Day" -> JObj([date |-> d, periodLabel |-> JStr("Day"), text |-> x])
          [] kind = "Night" -> JObj([date |-> d, periodLabel |-> JStr("Night"), text |-> x])
          [] kind = "Evening" ->
                JObj([date |-> d, periodLabel |-> JStr("Evening"), text |-> x])
          [] kind = "NoLabel" -> JObj([date |-> d, text |-> x])

\* the sequence whose i-th entry is of kind ks[i]
DailySequence(ks) == JList([i \in 1..Len(ks) |-> EntryAt(i, ks[i])])

\* the kinds of entries in sequences of length n: Day and Night entries up to
\* MaxDaily of them, and with other labels in sequences one entry shorter
EntryKinds(n) ==
    IF n = MaxDaily THEN {"Day", "Night"} ELSE {"Day", "Night", "Evening", "NoLabel"}

\* a caller about to call format_forecast, as test_format_forecast does
FormatCalls ==
    {[entry |-> "format_forecast", latitude |-> ArgNone, longitude |-> ArgNone,
      daily_forecast |-> EmptyList, url |-> "", retries |-> MAX_RETRIES]}

InitFormat == InitWith({1}, FormatCalls)

\* format_forecast(d), with the default max_days, runs to its end
Call_format_forecast(p) ==
    /\ pc[p] = "called" /\ entry[p] = "format_forecast"
    /\ \E n \in 0..MaxDaily : \E ks \in [1..n -> EntryKinds(n)] :
        LET d == DailySequence(ks)
            r == format_forecast(d, DEFAULT_MAX_DAYS)
        IN  /\ daily_forecast' = [daily_forecast EXCEPT ![p] = d]
            /\ result' = [result EXCEPT ![p] =
                              IF r.ok THEN Returned(r.v) ELSE Raised(r.e)]
    /\ pc' = [pc EXCEPT ![p] = "done"]
    /\ UNCHANGED <<procs, entry, latitude, longitude, url, retries,
                   attempt, last_error, client_open, gets, sleeps, responses,
                   request_result>>

NextFormat == \E p \in procs : Call_format_forecast(p)

SpecFormat == InitFormat /\ [][NextFormat]_vars

\* ------------------------------------------------------------ properties
StartsWith(s, prefix) ==
    Len(s) >= Len(prefix) /\ SubSeq(s, 1, Len(prefix)) = prefix

IsStatus(o, S) == o.k = "response" /\ o.status \in S
IsParsed2xx(o) == IsStatus(o, 200..299) /\ o.body.t # "unparseable"
IsTransportError(o) == o.k = "raise" /\ o.type \in {"ConnectError", "ReadTimeout"}
\* the outcomes the spec lists as retryable
ListedRetryable(o) ==
    \/ o.k = "response" /\ (o.status = 429 \/ o.status >= 500)
    \/ IsTransportError(o)
\* those, and the remaining non-2xx statuses below 400
RetryableOutcome(o) ==
    ListedRetryable(o) \/ (o.k = "response" /\ o.status < 400 /\ ~IsStatus(o, 200..299))
FatalStatus(o) == IsStatus(o, 400..499) /\ o.status # 429

\* the error e is the one the outcome o of client.get produced
ErrorOf(e, o) ==
    \/ o.k = "raise" /\ e.type = o.type
    \/ o.k = "response" /\ e.type = "HTTPStatusError" /\ e.status = o.status

FailedWith(r, prefix) ==
    r.kind = "raise" /\ r.exc.type = "WeatherAPIError" /\ StartsWith(r.exc.msg, prefix)
IsExhausted(r) == FailedWith(r, "Failed after ")
IsClientError(r) == FailedWith(r, "Client error: ")
IsUnexpected(r) == FailedWith(r, "Unexpected error: ")

\* C1: get_forecast never raises: whatever the inputs and whatever the Request
\* Executor ends with, a finished get_forecast call has returned a string.
C1_NeverRaises ==
    \A p \in procs :
        entry[p] = "get_forecast" =>
            /\ result[p].kind \in {"pending", "return"}
            /\ pc[p] = "done" => result[p].kind = "return" /\ result[p].value \in STRING

\* a payload whose navigation raised inside the try block, rendered as text
C1_Witness ==
    \E p \in procs :
        /\ entry[p] = "get_forecast" /\ pc[p] = "done"
        /\ request_result[p].kind = "return"
        /\ result[p].kind = "return"
        /\ StartsWith(result[p].value, "Error processing forecast data: ")

\* C2: at most retries + 1 GETs are issued; the call ends in the exhausted-retries
\* failure exactly when retries + 1 attempts were made and each of them ended in a
\* retryable outcome.
C2_AttemptBudget ==
    \A p \in procs :
        /\ gets[p] <= retries[p] + 1
        /\ request_result[p] # Pending =>
              (IsExhausted(request_result[p])
                 <=> /\ gets[p] = retries[p] + 1
                     /\ Len(responses[p]) = retries[p] + 1
                     /\ \A i \in 1..Len(responses[p]) : RetryableOutcome(responses[p][i]))

\* [503, 503, 503] with retries = 2: three attempts and the failure
C2_Witness ==
    \E p \in procs :
        /\ retries[p] = 2 /\ gets[p] = 3
        /\ Len(responses[p]) = 3
        /\ \A i \in 1..3 : IsStatus(responses[p][i], {503})
        /\ IsExhausted(request_result[p])

\* C3: a status in [400,500) other than 429 ends the call at once with the
\* client-error failure: that response is the last one, no GET and no sleep follows
\* it, at any attempt index.
C3_ClientErrorIsFatal ==
    \A p \in procs : \A i \in 1..Len(responses[p]) :
        FatalStatus(responses[p][i]) =>
            /\ i = Len(responses[p]) /\ gets[p] = i
            /\ Len(sleeps[p]) = i - 1
            /\ pc[p] = "done"
            /\ IsClientError(request_result[p])

\* a 400 on the second attempt while retries remain
C3_Witness ==
    \E p \in procs :
        /\ Len(responses[p]) = 2 /\ retries[p] >= 2
        /\ IsStatus(responses[p][2], {400})
        /\ gets[p] = 2 /\ pc[p] = "done"

\* C4: a 429, a status >= 500 or a transport error with an attempt remaining does
\* not fail the call: while it is the latest outcome the call is still running
\* towards its next GET with that error as last_error; and a 2xx parseable response
\* after a run of such failures ends the call with the parsed value.
C4_RetryableContinues ==
    \A p \in procs : \A i \in 1..Len(responses[p]) :
        /\ (ListedRetryable(responses[p][i]) /\ i <= retries[p]) =>
              \/ gets[p] > i
              \/ /\ i = Len(responses[p]) /\ gets[p] = i
                 /\ request_result[p] = Pending
                 /\ pc[p] \in {"sleeping", "request"}
                 /\ LoopCondition(attempt[p], retries[p])
                 /\ ErrorOf(last_error[p], responses[p][i])
        /\ (IsParsed2xx(responses[p][i])
            /\ \A j \in 1..(i - 1) : ListedRetryable(responses[p][j])) =>
              request_result[p] = Returned(responses[p][i].body)

\* [500, 500, 200]: success on the third attempt
C4_Witness ==
    \E p \in procs :
        /\ Len(responses[p]) = 3
        /\ IsStatus(responses[p][1], {500}) /\ IsStatus(responses[p][2], {500})
        /\ IsParsed2xx(responses[p][3])
        /\ request_result[p] = Returned(responses[p][3].body)

\* C5: the k-th backoff sleep of a call lasts RETRY_DELAY * 2^(k-1) seconds: 1, 2,
\* 4, ...; each is double the one before, whichever retryable errors occurred.
C5_ExponentialBackoff ==
    \A p \in procs : \A k \in 1..Len(sleeps[p]) :
        /\ sleeps[p][k] = RETRY_DELAY * 2 ^ (k - 1)
        /\ k > 1 => sleeps[p][k] = 2 * sleeps[p][k - 1]

\* three sleeps 1, 2, 4 after three retryable errors of different kinds
C5_Witness ==
    \E p \in procs :
        /\ sleeps[p] = <<1, 2, 4>>
        /\ IsStatus(responses[p][1], {429})
        /\ IsTransportError(responses[p][2])
        /\ IsStatus(responses[p][3], {500, 503})

\* C6: a sleep happens only directly after a retryable failed attempt and before
\* another attempt: none before the first attempt, none after a success, a fatal
\* failure or the final attempt; the sleeps number the attempts minus one.
C6_SleepOnlyBetweenAttempts ==
    \A p \in procs :
        /\ pc[p] = "called" => sleeps[p] = <<>>
        /\ gets[p] = 0 => sleeps[p] = <<>>
        /\ pc[p] = "sleeping" =>
              /\ Len(sleeps[p]) = gets[p] /\ Len(responses[p]) = gets[p]
              /\ RetryableOutcome(responses[p][gets[p]])
              /\ gets[p] <= retries[p]
        /\ pc[p] = "in_get" => Len(sleeps[p]) = gets[p] - 1
        /\ request_result[p] # Pending => Len(sleeps[p]) = gets[p] - 1

\* retries exhausted after three attempts and two sleeps
C6_Witness ==
    \E p \in procs :
        /\ IsExhausted(request_result[p])
        /\ gets[p] = 3 /\ Len(sleeps[p]) = 2

\* C7: the first 2xx response with a parseable body ends the call: its parsed value
\* is returned, and no GET and no sleep follows it.
C7_SuccessEndsCall ==
    \A p \in procs : \A i \in 1..Len(responses[p]) :
        IsParsed2xx(responses[p][i]) =>
            /\ i = Len(responses[p]) /\ gets[p] = i
            /\ Len(sleeps[p]) = i - 1
            /\ pc[p] = "done"
            /\ request_result[p] = Returned(responses[p][i].body)

\* success on the first attempt: the GET is issued exactly once
C7_Witness ==
    \E p \in procs :
        /\ entry[p] = "make_gc_request" /\ retries[p] = MAX_RETRIES
        /\ Len(responses[p]) = 1 /\ IsParsed2xx(responses[p][1])
        /\ gets[p] = 1 /\ sleeps[p] = <<>>
        /\ result[p] = Returned(responses[p][1].body)

\* C8: the exhausted-retries failure carries the error of the final attempt, for
\* every mix of retryable errors.
C8_LastErrorReported ==
    \A p \in procs :
        IsExhausted(request_result[p]) =>
            LET n == Len(responses[p])
                e == TryBody(responses[p][n], url[p]).e
            IN  /\ n = gets[p]
                /\ ErrorOf(last_error[p], responses[p][n])
                /\ request_result[p].exc.msg =
                      "Failed after " \o ToString(n) \o " attempts: " \o e.msg

\* [500, timeout, 503]: the 503 is reported
C8_Witness ==
    \E p \in procs :
        /\ IsExhausted(request_result[p])
        /\ Len(responses[p]) = 3
        /\ IsStatus(responses[p][1], {500})
        /\ responses[p][2] = GetRaises("ReadTimeout")
        /\ IsStatus(responses[p][3], {503})
        /\ last_error[p].type = "HTTPStatusError" /\ last_error[p].status = 503

\* the validity of an argument as the spec states it
InRange(x, lo, hi) == x.t = "num" /\ lo <= x.v /\ x.v <= hi
ValidCoordinates(lat, lon) == InRange(lat, -90, 90) /\ InRange(lon, -180, 180)
ExecutorInvoked(p) == pc[p] \in {"request", "in_get", "sleeping"} \/ request_result[p] # Pending

\* C9: get_forecast invokes the Request Executor only when both inputs are numbers
\* with latitude in [-90,90] and longitude in [-180,180]; otherwise it returns an
\* error string with zero network calls.
C9_NoRequestUnlessValid ==
    \A p \in procs :
        entry[p] = "get_forecast" =>
            /\ ExecutorInvoked(p) => ValidCoordinates(latitude[p], longitude[p])
            /\ ~ValidCoordinates(latitude[p], longitude[p]) =>
                  /\ gets[p] = 0
                  /\ pc[p] = "done" =>
                        result[p] \in {Returned(TypeErrorText), Returned(LatitudeErrorText),
                                       Returned(LongitudeErrorText)}

\* C10: validation is first-failure-wins in the order type, latitude, longitude:
\* for inputs that pass the type check, every latitude outside [-90,90] yields the
\* latitude error whatever the longitude, and the longitude error is returned only
\* when the latitude is in [-90,90] and the longitude is outside [-180,180].
C10_ValidationOrder ==
    \A p \in procs :
        (entry[p] = "get_forecast" /\ pc[p] = "done"
         /\ IsNumber(latitude[p]) /\ IsNumber(longitude[p])) =>
            /\ ~InRange(latitude[p], -90, 90) => result[p] = Returned(LatitudeErrorText)
            /\ result[p] = Returned(LongitudeErrorText) =>
                  InRange(latitude[p], -90, 90) /\ ~InRange(longitude[p], -180, 180)

\* the period label of an entry of a daily sequence, "" when it has none
LabelOf(e) == IF "periodLabel" \in DOMAIN e.o THEN e.o.periodLabel.s ELSE ""
OnlyDayAndNight(l) == \A i \in 1..Len(l) : LabelOf(l[i]) \in {"Day", "Night"}
DayEntriesOf(l) == SelectSeq(l, LAMBDA e : LabelOf(e) = "Day")
NotNightEntriesOf(l) == SelectSeq(l, LAMBDA e : LabelOf(e) # "Night")
FirstUpTo(l, n) == SubSeq(l, 1, IF Len(l) < n THEN Len(l) ELSE n)

\* the blocks of the entries l, in order, with the separator between them
RECURSIVE BlocksJoined(_)
BlocksJoined(l) ==
    IF Len(l) = 1 THEN ForecastBlock(l[1])
    ELSE ForecastBlock(l[1]) \o "\n---\n" \o BlocksJoined(Tail(l))

\* what rendering exactly the entries l amounts to
RenderingOf(l) ==
    Returned(IF Len(l) = 0 THEN "No forecast data available" ELSE BlocksJoined(l))

FormatDone(p) == entry[p] = "format_forecast" /\ pc[p] = "done"

\* C11: for a sequence of N "Day" and M "Night" entries interleaved in any way,
\* format_forecast renders exactly the first min(N, 5) "Day" entries in their
\* original order, joined by "\n---\n", none of the "Night" entries, without error.
C11_FirstFiveDays ==
    \A p \in procs :
        (FormatDone(p) /\ OnlyDayAndNight(daily_forecast[p].l)) =>
            result[p] = RenderingOf(FirstUpTo(DayEntriesOf(daily_forecast[p].l), 5))

\* six Day entries with a Night entry among them: five are rendered
C11_Witness ==
    \E p \in procs :
        /\ FormatDone(p) /\ OnlyDayAndNight(daily_forecast[p].l)
        /\ Len(daily_forecast[p].l) = 7
        /\ LabelOf(daily_forecast[p].l[2]) = "Night"
        /\ Len(DayEntriesOf(daily_forecast[p].l)) = 6
        /\ result[p] = RenderingOf(SubSeq(DayEntriesOf(daily_forecast[p].l), 1, 5))

\* C12 as stated: only the entries labelled "Day" are rendered; an entry whose label
\* is absent or any other value is never rendered and does not count towards the cap.
C12_OnlyDayRetained ==
    \A p \in procs :
        FormatDone(p) =>
            result[p] = RenderingOf(FirstUpTo(DayEntriesOf(daily_forecast[p].l), 5))

\* C12 amended: only the entries labelled "Night" are dropped; an entry whose label
\* is "Day", absent or any other value is rendered and counts towards the cap of 5.
C12_OnlyNightDropped ==
    \A p \in procs :
        FormatDone(p) =>
            result[p] = RenderingOf(FirstUpTo(NotNightEntriesOf(daily_forecast[p].l), 5))

\* an unlabelled and an "Evening" entry are rendered and use up the cap
C12_Witness ==
    \E p \in procs :
        /\ FormatDone(p)
        /\ Len(daily_forecast[p].l) = 6
        /\ LabelOf(daily_forecast[p].l[1]) = ""
        /\ LabelOf(daily_forecast[p].l[2]) = "Evening"
        /\ \A i \in 3..6 : LabelOf(daily_forecast[p].l[i]) = "Day"
        /\ result[p] = RenderingOf(SubSeq(daily_forecast[p].l, 1, 5))

\* a get_forecast call whose make_gc_request returned a decoded payload
ForecastGot(p) ==
    entry[p] = "get_forecast" /\ pc[p] = "done" /\ request_result[p].kind = "return"
HasKey(x, key) == x.t = "obj" /\ key \in DOMAIN x.o

\* C13: after a successful request get_forecast returns "Unable to fetch forecast
\* data for this location" exactly when the payload is missing, not a sequence or
\* an empty sequence; and "No forecast data available for this location" when the
\* first element lacks dailyFcst, lacks dailyFcst.daily or has an empty daily.
C13_ShapeMessages ==
    \A p \in procs :
        ForecastGot(p) =>
            LET v == request_result[p].value
            IN  /\ result[p] = Returned(UnableToFetchText)
                      <=> (v.t # "list" \/ Len(v.l) = 0)
                /\ (/\ v.t = "list" /\ Len(v.l) > 0 /\ v.l[1].t = "obj"
                    /\ \/ ~HasKey(v.l[1], "dailyFcst")
                       \/ /\ v.l[1].o.dailyFcst.t = "obj"
                          /\ \/ ~HasKey(v.l[1].o.dailyFcst, "daily")
                             \/ v.l[1].o.dailyFcst.o.daily = EmptyList)
                   => result[p] = Returned(NoLocationDataText)

\* the payload of test_get_forecast_missing_data, and one with an empty daily
C13_Witness ==
    \E p \in procs :
        /\ ForecastGot(p)
        /\ request_result[p].value \in
              {JList(<<JObj([displayName |-> JStr("Test City")])>>),
               JList(<<JObj([displayName |-> JStr("Test City"),
                             dailyFcst |-> JObj([daily |-> EmptyList])])>>)}
        /\ result[p] = Returned(NoLocationDataText)

\* C14: navigating to the daily sequence never produces an error: whatever JSON
\* value the first element is and whatever dailyFcst holds, a sequence absent at
\* any level counts as empty and get_forecast returns "No forecast data available
\* for this location".
C14_NavigationNeverErrors ==
    \A p \in procs :
        (/\ ForecastGot(p)
         /\ request_result[p].value.t = "list" /\ Len(request_result[p].value.l) > 0
         /\ LET first == request_result[p].value.l[1]
            IN  \/ ~HasKey(first, "dailyFcst")
                \/ ~HasKey(first.o.dailyFcst, "daily"))
        => result[p] = Returned(NoLocationDataText)

\* C15: when make_gc_request fails with a WeatherAPIError of any kind, get_forecast
\* returns "Weather API error: " followed by the failure's message, and none of the
\* payload-shape messages.
C15_FailureReported ==
    \A p \in procs :
        (entry[p] = "get_forecast" /\ request_result[p].kind = "raise") =>
            /\ pc[p] = "done"
            /\ request_result[p].exc.type = "WeatherAPIError"
            /\ result[p] = Returned("Weather API error: " \o request_result[p].exc.msg)
            /\ result[p] \notin {Returned(UnableToFetchText), Returned(NoLocationDataText)}

\* a get_forecast call whose request ran out of attempts
C15_Witness ==
    \E p \in procs :
        /\ entry[p] = "get_forecast" /\ pc[p] = "done"
        /\ IsExhausted(request_result[p])
        /\ gets[p] = MAX_RETRIES + 1
        /\ StartsWith(result[p].value, "Weather API error: Failed after 3 attempts: ")

\* C17: a call holds at most one open client, only during a GET: no client is open
\* while the call sleeps, before its first GET, between attempts, or after the
\* call has returned or failed.
C17_ClientScopedToAttempt ==
    \A p \in procs :
        /\ client_open[p] \in {0, 1}
        /\ client_open[p] = 1 <=> pc[p] = "in_get"

\* asleep after a failed first attempt, with the client of that attempt closed
C17_Witness ==
    \E p \in procs :
        /\ pc[p] = "sleeping" /\ gets[p] = 1 /\ Len(responses[p]) = 1
        /\ client_open[p] = 0

\* an attempt that ended with neither a parsed 2xx body, an HTTP status error nor
\* a transport error
UnexpectedOutcome(o) ==
    \/ IsStatus(o, 200..299) /\ o.body.t = "unparseable"
    \/ o.k = "raise" /\ ~IsTransportError(o)

\* C18: an attempt ending with any exception other than an HTTP status error or a
\* transport error, such as a 2xx response whose body cannot be parsed, ends the
\* call at once with the "Unexpected error" failure: no GET and no sleep follows,
\* even with retries remaining.
C18_UnexpectedIsFatal ==
    \A p \in procs : \A i \in 1..Len(responses[p]) :
        UnexpectedOutcome(responses[p][i]) =>
            /\ i = Len(responses[p]) /\ gets[p] = i
            /\ Len(sleeps[p]) = i - 1
            /\ pc[p] = "done"
            /\ IsUnexpected(request_result[p])

\* a 200 with an unparseable body on the first attempt, two retries unused
C18_Witness ==
    \E p \in procs :
        /\ retries[p] >= 2 /\ Len(responses[p]) = 1
        /\ IsStatus(responses[p][1], {200}) /\ responses[p][1].body = Unparseable
        /\ gets[p] = 1 /\ sleeps[p] = <<>> /\ pc[p] = "done"

\* C19: get_forecast never returns a string that begins with "Unable to process
\* forecast data: missing key".
C19_MissingKeyUnreachable ==
    \A p \in procs :
        (entry[p] = "get_forecast" /\ result[p].kind = "return") =>
            ~StartsWith(result[p].value, "Unable to process forecast data: missing key")

\* an entry without date and text is rendered with the defaults
C19_Witness ==
    \E p \in procs :
        /\ ForecastGot(p)
        /\ request_result[p].value =
              JList(<<JObj([displayName |-> JStr("Test City"),
                            dailyFcst |-> JObj([daily |->
                                JList(<<JObj([periodLabel |-> JStr("Day")])>>)])])>>)
        /\ result[p] = Returned("\nUnknown date:\nForecast: No forecast available\n")

LowNon2xx(o) == o.k = "response" /\ o.status < 400 /\ ~IsStatus(o, 200..299)

\* C20: a non-2xx status below 400 is retried like a 5xx: with an attempt remaining
\* the call sleeps RETRY_DELAY * 2^(i-1) and goes on to its next GET with that
\* error as last_error; on the last attempt the call ends in the "Failed after"
\* failure, after retries + 1 attempts.
C20_LowStatusRetried ==
    \A p \in procs : \A i \in 1..Len(responses[p]) :
        LowNon2xx(responses[p][i]) =>
            /\ i <= retries[p] =>
                  /\ Len(sleeps[p]) >= i /\ sleeps[p][i] = RETRY_DELAY * 2^(i - 1)
                  /\ \/ gets[p] > i
                     \/ /\ i = Len(responses[p]) /\ request_result[p] = Pending
                        /\ pc[p] \in {"sleeping", "request"}
                        /\ ErrorOf(last_error[p], responses[p][i])
            /\ i = retries[p] + 1 =>
                  /\ gets[p] = i /\ Len(sleeps[p]) = i - 1
                  /\ \/ pc[p] = "request" /\ request_result[p] = Pending
                     \/ pc[p] = "done" /\ IsExhausted(request_result[p])

\* [301, 301, 301] under two retries: three GETs, sleeps 1 and 2, then failure
C20_Witness ==
    \E p \in procs :
        /\ retries[p] = 2 /\ Len(responses[p]) = 3
        /\ \A i \in 1..3 : IsStatus(responses[p][i], {301})
        /\ gets[p] = 3 /\ sleeps[p] = <<1, 2>>
        /\ IsExhausted(request_result[p])

\* make_gc_request(u, r) run alone from loop state st against the responses rs:
\* the number of GETs, the sleeps and the outcome
RECURSIVE SoloRequest(_, _, _, _)
SoloRequest(u, r, rs, st) ==
    IF ~LoopCondition(st.attempt, r)
    THEN [gets |-> st.gets, sleeps |-> st.sleeps,
          outcome |-> Raised(WeatherAPIError(ExhaustedMessage(r, st.last_error)))]
    ELSE IF st.gets >= Len(rs)
    THEN [gets |-> st.gets + 1, sleeps |-> st.sleeps, outcome |-> Pending]
    ELSE LET t == TryBody(rs[st.gets + 1], u)
             ended(x) == [gets |-> st.gets + 1, sleeps |-> st.sleeps, outcome |-> x]
         IN  IF t.ok THEN ended(Returned(t.v))
             ELSE IF IsHTTPStatusError(t.e) /\ IsClientErrorStatus(t.e.status)
             THEN ended(Raised(WeatherAPIError("Client error: " \o t.e.msg)))
             ELSE IF IsHTTPStatusError(t.e) \/ IsRequestError(t.e)
             THEN SoloRequest(u, r, rs,
                      [attempt |-> st.attempt + 1,
                       last_error |-> RecordError(st.last_error, t.e),
                       gets |-> st.gets + 1,
                       sleeps |-> IF SleepCondition(st.attempt + 1, r)
                                  THEN Append(st.sleeps, WaitTime(st.attempt + 1))
                                  ELSE st.sleeps])
             ELSE ended(Raised(WeatherAPIError("Unexpected error: " \o t.e.msg)))

\* the call of invocation p run alone, with p's inputs and the responses p received
SoloCall(p) ==
    LET start == [attempt |-> 0, last_error |-> NoneValue, gets |-> 0, sleeps |-> <<>>]
        error == InputValidation(latitude[p], longitude[p])
    IN  IF entry[p] = "make_gc_request"
        THEN LET s == SoloRequest(url[p], retries[p], responses[p], start)
             IN  [gets |-> s.gets, sleeps |-> s.sleeps, result |-> s.outcome]
        ELSE IF error # ""
        THEN [gets |-> 0, sleeps |-> <<>>, result |-> Returned(error)]
        ELSE LET s == SoloRequest(ForecastUrl(latitude[p], longitude[p]), retries[p],
                                  responses[p], start)
             IN  [gets |-> s.gets, sleeps |-> s.sleeps, result |-> AfterRequest(s.outcome)]

\* C16: concurrent invocations do not interfere: in every interleaving a finished
\* invocation's attempt count, sleep sequence and result are those of the same
\* call run alone with the same inputs and the same responses to its own requests.
C16_NoInterference ==
    \A p \in procs :
        pc[p] = "done" =>
            [gets |-> gets[p], sleeps |-> sleeps[p], result |-> result[p]] = SoloCall(p)

\* two finished calls that both retried, on different responses and to different
\* ends
C16_Witness ==
    /\ procs = {1, 2}
    /\ \A p \in procs : /\ entry[p] = "get_forecast" /\ pc[p] = "done"
                         /\ gets[p] >= 2 /\ Len(sleeps[p]) >= 1
    /\ gets[1] # gets[2]
    /\ responses[1] # responses[2]
    /\ result[1] # result[2]

====
